---- MODULE Spec2Model ----
(***************************************************************************)
(* Verification model of the Mechanical-Engineer-Helper repository:        *)
(*   - src/app/lib/calculations.ts            beam deflection solver       *)
(*   - src/app/materials/compare/ComparisonChartsContainer.tsx             *)
(*                                            radar-chart normalizer       *)
(*   - src/unnamed/part_004 (MaterialsTable)  unit conversion of the table *)
(*   - src/app/materials/compare/MaterialCompareClientPage.tsx             *)
(*                                            unit conversion of the       *)
(*                                            compare page                 *)
(*                                                                         *)
(* JavaScript numbers are modelled as exact decimal-scaled rationals       *)
(* [n, d, e] standing for (n / d) * 10^e, so that a value such as 200e9 Pa *)
(* stays inside the integers of the model checker.  Floating-point         *)
(* rounding of + - * / is not modelled; Math.sqrt is modelled as the       *)
(* correctly rounded root on a grid of 1/SqrtDen.                          *)
(***************************************************************************)
EXTENDS Integers, Sequences, FiniteSets, TLC

(***************************************************************************)
(* Numbers                                                                 *)
(***************************************************************************)
Abs(i) == IF i < 0 THEN -i ELSE i

Sgn(i) == IF i < 0 THEN -1 ELSE IF i = 0 THEN 0 ELSE 1

RECURSIVE Gcd(_, _)
Gcd(x, y) == IF y = 0 THEN x ELSE Gcd(y, x % y)

RECURSIVE Pow10(_)
Pow10(k) == IF k <= 0 THEN 1 ELSE 10 * Pow10(k - 1)

\* move factors of ten of numerator and denominator into the exponent
RECURSIVE Strip10(_, _, _)
Strip10(n, d, e) ==
    IF n = 0 THEN [n |-> 0, d |-> 1, e |-> 0]
    ELSE IF n % 10 = 0 THEN Strip10(n \div 10, d, e + 1)
    ELSE IF d % 10 = 0 THEN Strip10(n, d \div 10, e - 1)
    ELSE [n |-> n, d |-> d, e |-> e]

\* the number (n / d) * 10^e, d # 0, in lowest terms
MkNum(n, d, e) ==
    LET s == Sgn(n) * Sgn(d)
        g == Gcd(Abs(n), Abs(d))
    IN  IF n = 0 THEN [n |-> 0, d |-> 1, e |-> 0]
        ELSE LET r == Strip10(Abs(n) \div g, Abs(d) \div g, e)
             IN  [n |-> s * r.n, d |-> r.d, e |-> r.e]

Int2Num(i) == MkNum(i, 1, 0)

Frac(n, d) == MkNum(n, d, 0)

Zero == Int2Num(0)

Neg(x) == [n |-> -x.n, d |-> x.d, e |-> x.e]

Mul(x, y) ==
    IF x.n = 0 \/ y.n = 0 THEN Zero
    ELSE LET g1 == Gcd(Abs(x.n), y.d)
             g2 == Gcd(Abs(y.n), x.d)
         IN  MkNum((x.n \div g1) * (y.n \div g2),
                   (x.d \div g2) * (y.d \div g1), x.e + y.e)

\* x / y for y # 0 (every division of the modelled code is guarded)
Div(x, y) == Mul(x, [n |-> Sgn(y.n) * y.d, d |-> Abs(y.n), e |-> -y.e])

Add(x, y) ==
    IF x.n = 0 THEN y
    ELSE IF y.n = 0 THEN x
    ELSE LET m  == IF x.e < y.e THEN x.e ELSE y.e
             xn == x.n * Pow10(x.e - m)
             yn == y.n * Pow10(y.e - m)
             g  == Gcd(x.d, y.d)
             l  == (x.d \div g) * y.d
         IN  MkNum(xn * (l \div x.d) + yn * (l \div y.d), l, m)

Sub(x, y) == Add(x, Neg(y))

Eq(x, y) == Sub(x, y).n = 0

Less(x, y) == Sub(x, y).n < 0

Leq(x, y) == Sub(x, y).n <= 0

IsZero(x) == x.n = 0

\* largest k with k * k <= m
RECURSIVE ISqrtFrom(_, _)
ISqrtFrom(k, m) == IF (k + 1) * (k + 1) > m THEN k ELSE ISqrtFrom(k + 1, m)

ISqrt(m) == ISqrtFrom(0, m)

\* Math.sqrt of q >= 0, correctly rounded: the root itself when it is a
\* rational number, and otherwise the multiple of 1/SqrtDen nearest to it
SqrtDen == 8

Sqrt(q) ==
    LET pn == q.n * Pow10(q.e)
        pd == q.d * Pow10(-q.e)
        g  == Gcd(pn, pd)
        rn == ISqrt(pn \div g)
        rd == ISqrt(pd \div g)
        m  == (pn * SqrtDen * SqrtDen) \div pd
        k  == ISqrt(m)
        up == 4 * pn * SqrtDen * SqrtDen >= (4 * k * k + 4 * k + 1) * pd
    IN  IF rn * rn = pn \div g /\ rd * rd = pd \div g THEN Frac(rn, rd)
        ELSE Frac(IF up THEN k + 1 ELSE k, SqrtDen)

(***************************************************************************)
(* State                                                                   *)
(***************************************************************************)
VARIABLES
    beamCall,        \* the last call of the beam solver: function, arguments, outcome
    radarMaterials,  \* the `materials` prop of the mounted ComparisonRadarChart
    normalizedData,  \* its memoised normalizedData
    page,            \* the mounted page component: "table" or "compare"
    selectedUnits,   \* the selectedUnits state of the mounted page component
    conversion,      \* the last call of a conversion function and its outcome
    database,        \* the materials table: the row stored under each name
    seedStep,        \* the last iteration of the seeding loop
    orderedMaterials, \* the stored materials the mounted compare page shows
    searchTerm,      \* MaterialsTable state: the search box, as a list of characters
    selectedCategory, \* the category filter
    sortColumn,      \* the column the table is sorted by
    sortDirection,   \* "asc" or "desc"
    currentPage,     \* the page of the table on display
    itemsPerPage,    \* the page length
    selectedIds      \* the ids ticked for comparison, in the order of ticking

\* the state of MaterialsTable besides its units
tableVars == <<searchTerm, selectedCategory, sortColumn, sortDirection, currentPage,
               itemsPerPage, selectedIds>>

vars == <<beamCall, radarMaterials, normalizedData, page, selectedUnits, conversion,
          database, seedStep, orderedMaterials, tableVars>>

NoCall == [fn |-> "none"]

DEFAULT_ITEMS_PER_PAGE == 25

ITEMS_PER_PAGE_OPTIONS == {10, 15, 25, 50, 100}

MAX_COMPARE_ITEMS == 6

(***************************************************************************)
(* Beam deflection solver: src/app/lib/calculations.ts                     *)
(***************************************************************************)
\* the arguments the solver is called with: L, P, E, I are integers (the
\* functions are exported and check no sign, so a negative length is among
\* them), a and x lie on a grid of halves that reaches past both supports
MaxL == 4

Lengths == -1..MaxL

Loads == -1..2

Stiffnesses == 0..2

Positions == {Frac(k, 2) : k \in -1..(2 * MaxL + 1)}

\* outcome of calculateSimpleBeamPointLoadDeflection: the number returned,
\* what console.error was given ("none", "a" or "x") and the error thrown
DeflectionOutcome(v, l) == [threw |-> "none", value |-> v, logged |-> l]

\* faulty variant: the left branch takes a for b
Deflection_LeftUsesA(L, P, E, I, a, x) ==
    LET k  == Mul(Int2Num(6), Mul(E, Mul(I, L)))
        LL == Mul(L, L)
        Lx == Sub(L, x)
    IN  IF IsZero(E) \/ IsZero(I) \/ IsZero(L)
            THEN DeflectionOutcome(Zero, "none")
        ELSE IF Less(a, Zero) \/ Less(L, a)
            THEN DeflectionOutcome(Zero, "a")
        ELSE IF Less(x, Zero) \/ Less(L, x)
            THEN DeflectionOutcome(Zero, "x")
        ELSE IF Leq(x, a)
            THEN DeflectionOutcome(
                     Mul(Div(Mul(P, Mul(a, x)), k),
                         Sub(Sub(LL, Mul(a, a)), Mul(x, x))), "none")
        ELSE DeflectionOutcome(
                     Mul(Div(Mul(P, Mul(a, Lx)), k),
                         Sub(Sub(LL, Mul(a, a)), Mul(Lx, Lx))), "none")

\* faulty variant: the range check of x is missing
Deflection_NoXCheck(L, P, E, I, a, x) ==
    LET b  == Sub(L, a)
        k  == Mul(Int2Num(6), Mul(E, Mul(I, L)))
        LL == Mul(L, L)
        Lx == Sub(L, x)
    IN  IF IsZero(E) \/ IsZero(I) \/ IsZero(L)
            THEN DeflectionOutcome(Zero, "none")
        ELSE IF Less(a, Zero) \/ Less(L, a)
            THEN DeflectionOutcome(Zero, "a")
        ELSE IF Leq(x, a)
            THEN DeflectionOutcome(
                     Mul(Div(Mul(P, Mul(b, x)), k),
                         Sub(Sub(LL, Mul(b, b)), Mul(x, x))), "none")
        ELSE DeflectionOutcome(
                     Mul(Div(Mul(P, Mul(a, Lx)), k),
                         Sub(Sub(LL, Mul(a, a)), Mul(Lx, Lx))), "none")

\* the formula of the segment left of the load (x <= a), lines 42-44
LeftSegmentDeflection(L, P, E, I, a, x) ==
    LET b == Sub(L, a)
    IN  Mul(Div(Mul(P, Mul(b, x)), Mul(Int2Num(6), Mul(E, Mul(I, L)))),
            Sub(Sub(Mul(L, L), Mul(b, b)), Mul(x, x)))

\* faulty variant: the right segment measures x from the left support
RightSegment_XFromLeft(L, P, E, I, a, x) ==
    Mul(Div(Mul(P, Mul(a, x)), Mul(Int2Num(6), Mul(E, Mul(I, L)))),
        Sub(Sub(Mul(L, L), Mul(a, a)), Mul(x, x)))

\* the formula of the segment right of the load (x > a), lines 45-47
RightSegmentDeflection(L, P, E, I, a, x) ==
    LET Lx == Sub(L, x)
    IN  Mul(Div(Mul(P, Mul(a, Lx)), Mul(Int2Num(6), Mul(E, Mul(I, L)))),
            Sub(Sub(Mul(L, L), Mul(a, a)), Mul(Lx, Lx)))

\* faulty variant: zero stiffness is not caught before the division
Deflection_NoDegenerateCheck(L, P, E, I, a, x) ==
    IF Less(a, Zero) \/ Less(L, a)
        THEN DeflectionOutcome(Zero, "a")
    ELSE IF Less(x, Zero) \/ Less(L, x)
        THEN DeflectionOutcome(Zero, "x")
    ELSE IF IsZero(E) \/ IsZero(I) \/ IsZero(L)
        THEN [threw |-> "none", value |-> [nan |-> TRUE], logged |-> "none"]
    ELSE IF Leq(x, a)
        THEN DeflectionOutcome(LeftSegmentDeflection(L, P, E, I, a, x), "none")
    ELSE DeflectionOutcome(RightSegmentDeflection(L, P, E, I, a, x), "none")

calculateSimpleBeamPointLoadDeflection(L, P, E, I, a, x) ==
    IF IsZero(E) \/ IsZero(I) \/ IsZero(L)
        THEN DeflectionOutcome(Zero, "none")
    ELSE IF Less(a, Zero) \/ Less(L, a)
        THEN DeflectionOutcome(Zero, "a")
    ELSE IF Less(x, Zero) \/ Less(L, x)
        THEN DeflectionOutcome(Zero, "x")
    ELSE IF Leq(x, a)
        THEN DeflectionOutcome(LeftSegmentDeflection(L, P, E, I, a, x), "none")
    ELSE DeflectionOutcome(RightSegmentDeflection(L, P, E, I, a, x), "none")

\* faulty variant: the two stationary points are taken the other way round
MaxDeflectionLocation_Swapped(L, a) ==
    LET b == Sub(L, a)
    IN  IF Leq(a, b)
            THEN Sub(L, Sqrt(Div(Sub(Mul(L, L), Mul(a, a)), Int2Num(3))))
        ELSE Sqrt(Div(Sub(Mul(L, L), Mul(b, b)), Int2Num(3)))

\* faulty variant: the stationary point of the left segment is taken whatever
\* the side of the load
MaxDeflectionLocation_LeftOnly(L, a) ==
    Sqrt(Div(Sub(Mul(L, L), Mul(Sub(L, a), Sub(L, a))), Int2Num(3)))

\* location of the maximum, lines 84-96
MaxDeflectionLocation(L, a) ==
    LET b == Sub(L, a)
    IN  IF Leq(a, b)
            THEN Sqrt(Div(Sub(Mul(L, L), Mul(b, b)), Int2Num(3)))
        ELSE Sub(L, Sqrt(Div(Sub(Mul(L, L), Mul(a, a)), Int2Num(3))))

\* faulty variant: the supports themselves are accepted as load positions
MaxDeflection_SupportsAllowed(L, P, E, I, a) ==
    IF IsZero(E) \/ IsZero(I) \/ IsZero(L) \/ IsZero(P)
        THEN [threw |-> "none", kind |-> "result", maxDeflection |-> Zero,
              location |-> Div(L, Int2Num(2)), logged |-> "none"]
    ELSE IF Less(a, Zero) \/ Less(L, a)
        THEN [threw |-> "none", kind |-> "null", logged |-> "a"]
    ELSE LET x_max == MaxDeflectionLocation(L, a)
         IN  [threw |-> "none", kind |-> "result",
              maxDeflection |->
                  calculateSimpleBeamPointLoadDeflection(L, P, E, I, a, x_max).value,
              location |-> x_max, logged |-> "none"]

\* faulty variant: the position of the load is checked before the zero load
\* and the zero stiffness
MaxDeflection_RangeCheckFirst(L, P, E, I, a) ==
    IF Leq(a, Zero) \/ Leq(L, a)
        THEN [threw |-> "none", kind |-> "null", logged |-> "a"]
    ELSE IF IsZero(E) \/ IsZero(I) \/ IsZero(L) \/ IsZero(P)
        THEN [threw |-> "none", kind |-> "result", maxDeflection |-> Zero,
              location |-> Div(L, Int2Num(2)), logged |-> "none"]
    ELSE LET x_max == MaxDeflectionLocation(L, a)
         IN  [threw |-> "none", kind |-> "result",
              maxDeflection |->
                  calculateSimpleBeamPointLoadDeflection(L, P, E, I, a, x_max).value,
              location |-> x_max, logged |-> "none"]

\* outcome of calculateSimpleBeamMaxDeflection: null, or {maxDeflection, location}
calculateSimpleBeamMaxDeflection(L, P, E, I, a) ==
    IF IsZero(E) \/ IsZero(I) \/ IsZero(L) \/ IsZero(P)
        THEN [threw |-> "none", kind |-> "result", maxDeflection |-> Zero,
              location |-> Div(L, Int2Num(2)), logged |-> "none"]
    ELSE IF Leq(a, Zero) \/ Leq(L, a)
        THEN [threw |-> "none", kind |-> "null", logged |-> "a"]
    ELSE LET x_max == MaxDeflectionLocation(L, a)
         IN  [threw |-> "none", kind |-> "result",
              maxDeflection |->
                  calculateSimpleBeamPointLoadDeflection(L, P, E, I, a, x_max).value,
              location |-> x_max, logged |-> "none"]

\* faulty variant: the load is put at the right support
calculateBeamDeflection_LoadAtSupport(length, load, youngsModulus, inertia) ==
    calculateSimpleBeamPointLoadDeflection(length, load, youngsModulus, inertia,
        length, Div(length, Int2Num(2)))

calculateBeamDeflection(length, load, youngsModulus, inertia) ==
    calculateSimpleBeamPointLoadDeflection(length, load, youngsModulus, inertia,
        Div(length, Int2Num(2)), Div(length, Int2Num(2)))

CallDeflection ==
    /\ beamCall = NoCall
    /\ \E L \in Lengths, P \in Loads, E \in Stiffnesses, I \in Stiffnesses,
          a \in Positions, x \in Positions :
          beamCall' = [fn |-> "deflectionAt",
                       L |-> Int2Num(L), P |-> Int2Num(P), E |-> Int2Num(E),
                       I |-> Int2Num(I), a |-> a, x |-> x,
                       out |-> calculateSimpleBeamPointLoadDeflection(
                                  Int2Num(L), Int2Num(P), Int2Num(E), Int2Num(I), a, x)]
    /\ UNCHANGED <<radarMaterials, normalizedData, page, selectedUnits, conversion, database, seedStep, orderedMaterials, tableVars>>

CallMaxDeflection ==
    /\ beamCall = NoCall
    /\ \E L \in Lengths, P \in Loads, E \in Stiffnesses, I \in Stiffnesses,
          a \in Positions :
          beamCall' = [fn |-> "maxDeflection",
                       L |-> Int2Num(L), P |-> Int2Num(P), E |-> Int2Num(E),
                       I |-> Int2Num(I), a |-> a,
                       out |-> calculateSimpleBeamMaxDeflection(
                                  Int2Num(L), Int2Num(P), Int2Num(E), Int2Num(I), a)]
    /\ UNCHANGED <<radarMaterials, normalizedData, page, selectedUnits, conversion, database, seedStep, orderedMaterials, tableVars>>

CallBeamDeflection ==
    /\ beamCall = NoCall
    /\ \E L \in Lengths, P \in Loads, E \in Stiffnesses, I \in Stiffnesses :
          beamCall' = [fn |-> "calculateBeamDeflection",
                       L |-> Int2Num(L), P |-> Int2Num(P), E |-> Int2Num(E),
                       I |-> Int2Num(I),
                       out |-> calculateBeamDeflection(
                                  Int2Num(L), Int2Num(P), Int2Num(E), Int2Num(I))]
    /\ UNCHANGED <<radarMaterials, normalizedData, page, selectedUnits, conversion, database, seedStep, orderedMaterials, tableVars>>

InitBeam ==
    /\ beamCall = NoCall
    /\ radarMaterials = <<>>
    /\ normalizedData = <<>>
    /\ page = "table"
    /\ selectedUnits = [density |-> "kg/m3", modulus |-> "GPa", strength |-> "MPa"]
    /\ conversion = NoCall
    /\ database = <<>>
    /\ seedStep = NoCall
    /\ orderedMaterials = <<>>
    /\ searchTerm = <<>>
    /\ selectedCategory = "all"
    /\ sortColumn = "name"
    /\ sortDirection = "asc"
    /\ currentPage = 1
    /\ itemsPerPage = DEFAULT_ITEMS_PER_PAGE
    /\ selectedIds = <<>>

NextBeam == CallDeflection \/ CallMaxDeflection \/ CallBeamDeflection

SpecBeam == InitBeam /\ [][NextBeam]_vars

(***************************************************************************)
(* Radar-chart normalizer: ComparisonRadarChart in                         *)
(* src/app/materials/compare/ComparisonChartsContainer.tsx                 *)
(***************************************************************************)
\* null and undefined alike: anything whose typeof is not 'number'
Null == [null |-> TRUE]

IsNumber(v) == v # Null

radarProperties == <<
    [key |-> "youngsModulus", label |-> "E Modulus", higherIsBetter |-> TRUE],
    [key |-> "ultimateTensileStrength", label |-> "UTS", higherIsBetter |-> TRUE],
    [key |-> "yieldStrength", label |-> "Yield Str.", higherIsBetter |-> TRUE],
    [key |-> "density", label |-> "Density", higherIsBetter |-> FALSE],
    [key |-> "specificModulus", label |-> "Specific Mod.", higherIsBetter |-> TRUE],
    [key |-> "specificStrength", label |-> "Specific Str.", higherIsBetter |-> TRUE],
    [key |-> "thermalExpansionCoefficient", label |-> "Therm. Exp.",
     higherIsBetter |-> FALSE] >>

\* faulty variant: the specific strength is derived from the ultimate tensile
\* strength
ProcessMaterial_FromTensileStrength(mat) ==
    [name |-> mat.name,
     density |-> mat.density,
     youngsModulus |-> mat.youngsModulus,
     yieldStrength |-> mat.yieldStrength,
     ultimateTensileStrength |-> mat.ultimateTensileStrength,
     thermalExpansionCoefficient |-> mat.thermalExpansionCoefficient,
     specificStrength |->
         IF IsNumber(mat.ultimateTensileStrength) /\ IsNumber(mat.density)
                /\ ~IsZero(mat.density)
             THEN Div(Div(mat.ultimateTensileStrength, mat.density), Int2Num(1000))
             ELSE Null,
     specificModulus |->
         IF IsNumber(mat.youngsModulus) /\ IsNumber(mat.density)
                /\ ~IsZero(mat.density)
             THEN Div(Div(mat.youngsModulus, mat.density), MkNum(1, 1, 6))
             ELSE Null]

\* { ...mat } with the derived properties added; a property that is not
\* assigned stays undefined
ProcessMaterial(mat) ==
    [name |-> mat.name,
     density |-> mat.density,
     youngsModulus |-> mat.youngsModulus,
     yieldStrength |-> mat.yieldStrength,
     ultimateTensileStrength |-> mat.ultimateTensileStrength,
     thermalExpansionCoefficient |-> mat.thermalExpansionCoefficient,
     specificStrength |->
         IF IsNumber(mat.yieldStrength) /\ IsNumber(mat.density)
                /\ ~IsZero(mat.density)
             THEN Div(Div(mat.yieldStrength, mat.density), Int2Num(1000))
             ELSE Null,
     specificModulus |->
         IF IsNumber(mat.youngsModulus) /\ IsNumber(mat.density)
                /\ ~IsZero(mat.density)
             THEN Div(Div(mat.youngsModulus, mat.density), MkNum(1, 1, 6))
             ELSE Null]

\* faulty variant: no clone, the derived properties are written to the given
\* object itself
MapMaterial_InPlace(mat) ==
    [mat |-> ProcessMaterial(mat), processedMat |-> ProcessMaterial(mat)]

\* one run of the map callback: the object it was given, as the callback
\* leaves it, and the clone it returns; every assignment of the callback is
\* to the clone
MapMaterial(mat) ==
    [mat |-> mat, processedMat |-> ProcessMaterial(mat)]

processedMaterials(materials) ==
    [i \in 1..Len(materials) |-> MapMaterial(materials[i]).processedMat]

\* the materials array of the parent after the chart has mapped over it
MaterialsAfterMap(materials) ==
    [i \in 1..Len(materials) |-> MapMaterial(materials[i]).mat]

\* processedMaterials.map(mat => mat[key]).filter(typeof v === 'number')
RECURSIVE NumericValues(_, _)
NumericValues(mats, key) ==
    IF mats = <<>> THEN <<>>
    ELSE IF IsNumber(Head(mats)[key])
        THEN <<Head(mats)[key]>> \o NumericValues(Tail(mats), key)
    ELSE NumericValues(Tail(mats), key)

RECURSIVE MathMin(_)
MathMin(values) ==
    IF Len(values) = 1 THEN values[1]
    ELSE LET m == MathMin(Tail(values))
         IN  IF Less(m, values[1]) THEN m ELSE values[1]

RECURSIVE MathMax(_)
MathMax(values) ==
    IF Len(values) = 1 THEN values[1]
    ELSE LET m == MathMax(Tail(values))
         IN  IF Less(values[1], m) THEN m ELSE values[1]

\* faulty variant: the extremum pass stops one material short
Extrema_SkipsLast(mats, key) ==
    LET all    == NumericValues(mats, key)
        values == IF Len(all) > 1 THEN SubSeq(all, 1, Len(all) - 1) ELSE all
    IN  IF Len(values) > 0
            THEN [min |-> MathMin(values), max |-> MathMax(values)]
            ELSE [min |-> Int2Num(0), max |-> Int2Num(1)]

\* the extremum pass: mins[key] and maxs[key]
Extrema(mats, key) ==
    LET values == NumericValues(mats, key)
    IN  IF Len(values) > 0
            THEN [min |-> MathMin(values), max |-> MathMax(values)]
            ELSE [min |-> Int2Num(0), max |-> Int2Num(1)]

Hundred == Int2Num(100)

\* faulty variant: the direction of the axis is ignored
NormalizedValue_NoInversion(rawValue, ext, higherIsBetter) ==
    IF ~IsNumber(rawValue) THEN Int2Num(50)
    ELSE LET range == Sub(ext.max, ext.min)
         IN  IF Less(Zero, range)
                 THEN Mul(Div(Sub(rawValue, ext.min), range), Hundred)
             ELSE IF Eq(rawValue, ext.min)
                 THEN IF higherIsBetter THEN Hundred ELSE Zero
             ELSE Int2Num(50)

\* faulty variant: a missing value scores 0
NormalizedValue_MissingIsZero(rawValue, ext, higherIsBetter) ==
    IF ~IsNumber(rawValue) THEN Zero
    ELSE LET range == Sub(ext.max, ext.min)
         IN  IF Less(Zero, range)
                 THEN LET t == Mul(Div(Sub(rawValue, ext.min), range), Hundred)
                      IN  IF higherIsBetter THEN t ELSE Sub(Hundred, t)
             ELSE IF Eq(rawValue, ext.min)
                 THEN IF higherIsBetter THEN Hundred ELSE Zero
             ELSE Int2Num(50)

\* faulty variant: a tie scores the neutral 50
NormalizedValue_TieIsFifty(rawValue, ext, higherIsBetter) ==
    IF ~IsNumber(rawValue) THEN Int2Num(50)
    ELSE LET range == Sub(ext.max, ext.min)
         IN  IF Less(Zero, range)
                 THEN LET t == Mul(Div(Sub(rawValue, ext.min), range), Hundred)
                      IN  IF higherIsBetter THEN t ELSE Sub(Hundred, t)
             ELSE Int2Num(50)

\* the scoring of one raw value on one axis
NormalizedValue(rawValue, ext, higherIsBetter) ==
    IF ~IsNumber(rawValue) THEN Int2Num(50)
    ELSE LET range == Sub(ext.max, ext.min)
         IN  IF Less(Zero, range)
                 THEN LET t == Mul(Div(Sub(rawValue, ext.min), range), Hundred)
                      IN  IF higherIsBetter THEN t ELSE Sub(Hundred, t)
             ELSE IF Eq(rawValue, ext.min)
                 THEN IF higherIsBetter THEN Hundred ELSE Zero
             ELSE Int2Num(50)

\* axisPoint[k] = v on an object: the key is added or overwritten
SetKey(obj, k, v) == [j \in DOMAIN obj \cup {k} |-> IF j = k THEN v ELSE obj[j]]

\* processedMaterials.forEach(mat => axisPoint[mat.name] = normalizedValue)
RECURSIVE FillAxisPoint(_, _, _, _)
FillAxisPoint(axisPoint, mats, prop, ext) ==
    IF mats = <<>> THEN axisPoint
    ELSE FillAxisPoint(
             SetKey(axisPoint, Head(mats).name,
                    NormalizedValue(Head(mats)[prop.key], ext, prop.higherIsBetter)),
             Tail(mats), prop, ext)

\* faulty variant: one pass, each material scored against the extrema of the
\* materials up to and including it
RECURSIVE StreamAxisPoint(_, _, _, _)
StreamAxisPoint(axisPoint, mats, j, prop) ==
    IF j > Len(mats) THEN axisPoint
    ELSE StreamAxisPoint(
             SetKey(axisPoint, mats[j].name,
                    NormalizedValue(mats[j][prop.key],
                                    Extrema(SubSeq(mats, 1, j), prop.key),
                                    prop.higherIsBetter)),
             mats, j + 1, prop)

ComputeNormalizedData_Streaming(materials) ==
    LET mats == processedMaterials(materials)
    IN  [p \in 1..Len(radarProperties) |->
            StreamAxisPoint([subject |-> radarProperties[p].label,
                             fullMark |-> Hundred],
                            mats, 1, radarProperties[p])]

\* the useMemo body of normalizedData: one axis point per radar property
ComputeNormalizedData(materials) ==
    LET mats == processedMaterials(materials)
    IN  [p \in 1..Len(radarProperties) |->
            FillAxisPoint([subject |-> radarProperties[p].label, fullMark |-> Hundred],
                          mats, radarProperties[p],
                          Extrema(mats, radarProperties[p].key))]

\* renderChart, lines 69-74: whether a material is drawn in the bar chart of
\* the property key
HasChartData(mat, key) ==
    IF key = "specificStrength"
        THEN IsNumber(mat.yieldStrength) /\ IsNumber(mat.density)
                 /\ ~IsZero(mat.density)
    ELSE IF key = "specificModulus"
        THEN IsNumber(mat.youngsModulus) /\ IsNumber(mat.density)
                 /\ ~IsZero(mat.density)
    ELSE key \in DOMAIN mat /\ mat[key] # Null

\* the materials a radar chart is given: up to MaxMaterials records named by
\* their position (names are unique in the database), whose properties are
\* missing or one of a few numbers
MaxMaterials == 3

NumOrNull(S) == {Null} \cup {Int2Num(i) : i \in S}

\* the rows the chart is drawn from: every combination of yield strength and
\* density, with the other three properties following them so that each is
\* missing on some rows and takes several values on the others
ChartRow(ys, d) ==
    [density |-> d,
     yieldStrength |-> ys,
     youngsModulus |->
         IF ys = Null THEN Null
         ELSE IF ys = Int2Num(30) THEN Int2Num(80) ELSE Int2Num(40),
     ultimateTensileStrength |->
         IF d = Null THEN Null
         ELSE IF d = Int2Num(0) THEN Int2Num(60) ELSE Int2Num(50),
     thermalExpansionCoefficient |->
         IF ys = Null THEN Null
         ELSE IF ys = Int2Num(10) THEN Int2Num(10)
         ELSE IF ys = Int2Num(20) THEN Int2Num(7) ELSE Int2Num(8)]

ChartMaterials ==
    {ChartRow(ys, d) : ys \in NumOrNull({10, 20, 30}), d \in NumOrNull({0, 5})}

MaterialName(i) == <<"m1", "m2", "m3", "m4", "m5", "m6">>[i]

Named(m, i) == [name |-> MaterialName(i)] @@ m

\* a ComparisonRadarChart is mounted with a non-empty list of materials
RenderRadarChart ==
    /\ radarMaterials = <<>>
    /\ \E n \in 1..MaxMaterials :
          \E ms \in [1..n -> ChartMaterials] :
              LET materials == [i \in 1..n |-> Named(ms[i], i)]
              IN  /\ radarMaterials' = MaterialsAfterMap(materials)
                  /\ normalizedData' = ComputeNormalizedData(materials)
    /\ UNCHANGED <<beamCall, page, selectedUnits, conversion, database, seedStep, orderedMaterials, tableVars>>

\* the parent renders again and hands the chart an array of the same
\* materials: both memos run a second time
RerenderRadarChart ==
    /\ radarMaterials # <<>>
    /\ radarMaterials' = MaterialsAfterMap(radarMaterials)
    /\ normalizedData' = ComputeNormalizedData(radarMaterials)
    /\ UNCHANGED <<beamCall, page, selectedUnits, conversion, database, seedStep, orderedMaterials, tableVars>>

InitRadar == InitBeam

NextRadar == RenderRadarChart

SpecRadar == InitRadar /\ [][NextRadar]_vars

NextRerender == RenderRadarChart \/ RerenderRadarChart

SpecRerender == InitRadar /\ [][NextRerender]_vars

(***************************************************************************)
(* Unit conversion: MaterialsTable (src/unnamed/part_004) and              *)
(* MaterialCompareClientPage                                               *)
(***************************************************************************)
\* unit names are written in ASCII: kg/m3 for kg/m³, g/cm3, lb/ft3
UnitTypes == {"density", "modulus", "strength"}

UnitNames == {"kg/m3", "g/cm3", "lb/ft3", "GPa", "MPa", "ksi", "psi"}

UnitInfo(f, p) == [factor |-> f, precision |-> p]

PressureUnits ==
    [GPa |-> UnitInfo(MkNum(1, 1, 9), 5),
     MPa |-> UnitInfo(MkNum(1, 1, 6), 2),
     ksi |-> UnitInfo(MkNum(689476, 1, 1), 3),
     psi |-> UnitInfo(MkNum(689476, 1, -2), 0)]

\* densityUnits, modulusUnits, strengthUnits of MaterialsTable
TableUnits ==
    [density |->
        ("kg/m3" :> UnitInfo(Int2Num(1), 0)
         @@ "g/cm3" :> UnitInfo(MkNum(1, 1, -3), 3)
         @@ "lb/ft3" :> UnitInfo(MkNum(160185, 1, -7), 3)),
     modulus |-> PressureUnits,
     strength |-> PressureUnits]

\* densityUnits, modulusUnits, strengthUnits of MaterialCompareClientPage
CompareUnits ==
    [density |->
        ("kg/m3" :> UnitInfo(Int2Num(1), 0)
         @@ "g/cm3" :> UnitInfo(Int2Num(1000), 3)
         @@ "lb/ft3" :> UnitInfo(MkNum(160185, 1, -4), 3)),
     modulus |-> PressureUnits,
     strength |-> PressureUnits]

\* factors[selectedUnit]: the entry, or undefined
Undefined == [undefined |-> TRUE]

Lookup(factors, unit) ==
    IF unit \in DOMAIN factors THEN factors[unit] ELSE Undefined

\* long division: the quotient q and remainder r (of the divisor d) after
\* k more decimal places
RECURSIVE ShiftDigits(_, _, _, _)
ShiftDigits(q, r, d, k) ==
    IF k = 0 THEN [q |-> q, r |-> r]
    ELSE ShiftDigits(10 * q + ((10 * r) \div d), (10 * r) % d, d, k - 1)

\* the digits of f, an integer below 10^k, on k places
RECURSIVE DigitsOf(_, _)
DigitsOf(f, k) ==
    IF k = 0 THEN <<>> ELSE Append(DigitsOf(f \div 10, k - 1), f % 10)

RECURSIVE TrimZeros(_)
TrimZeros(ds) ==
    IF ds # <<>> /\ ds[Len(ds)] = 0 THEN TrimZeros(SubSeq(ds, 1, Len(ds) - 1))
    ELSE ds

\* faulty variant: the digits after the last shown decimal are cut off
ToLocaleString_Truncates(x, maxFrac) ==
    LET n     == Abs(x.n)
        d     == IF x.e < 0 THEN x.d * Pow10(-x.e) ELSE x.d
        whole == ShiftDigits(n \div d, n % d, d, IF x.e > 0 THEN x.e ELSE 0)
        frac  == ShiftDigits(0, whole.r, d, maxFrac)
    IN  [kind |-> "digits",
         negative |-> x.n < 0,
         int |-> whole.q,
         frac |-> TrimZeros(DigitsOf(frac.q, maxFrac))]

\* x.toLocaleString(undefined, {minimumFractionDigits: 0,
\* maximumFractionDigits: maxFrac}): x rounded half away from zero to maxFrac
\* decimals, as sign, integer part and fraction digits without trailing zeros
\* (the grouping separators of the locale are left out)
ToLocaleString(x, maxFrac) ==
    LET n     == Abs(x.n)
        d     == IF x.e < 0 THEN x.d * Pow10(-x.e) ELSE x.d
        whole == ShiftDigits(n \div d, n % d, d, IF x.e > 0 THEN x.e ELSE 0)
        frac  == ShiftDigits(0, whole.r, d, maxFrac)
        up    == 2 * frac.r >= d
        f     == IF up THEN frac.q + 1 ELSE frac.q
        carry == f = Pow10(maxFrac)
    IN  [kind |-> "digits",
         negative |-> x.n < 0,
         int |-> IF carry THEN whole.q + 1 ELSE whole.q,
         frac |-> TrimZeros(DigitsOf(IF carry THEN 0 ELSE f, maxFrac))]

NotAvailable == [kind |-> "N/A"]

Returned(v) == [threw |-> "none", value |-> v]

Threw(err) == [threw |-> err]

\* faulty variant: the unit is looked up before the null check
convertValue_LookupFirst(value, unitType, units) ==
    LET unitInfo == Lookup(TableUnits[unitType], units[unitType])
    IN  IF unitInfo = Undefined THEN Threw("TypeError")
        ELSE IF value = Null THEN Returned(NotAvailable)
        ELSE Returned(ToLocaleString(Div(value, unitInfo.factor),
                                     unitInfo.precision))

\* MaterialsTable.convertValue, lines 257-277
convertValue(value, unitType, units) ==
    IF value = Null THEN Returned(NotAvailable)
    ELSE LET unitInfo == Lookup(TableUnits[unitType], units[unitType])
         IN  IF unitInfo = Undefined THEN Threw("TypeError")
             ELSE Returned(ToLocaleString(Div(value, unitInfo.factor),
                                          unitInfo.precision))

\* the number a digit string stands for
RECURSIVE DigitsValue(_, _)
DigitsValue(acc, ds) ==
    IF ds = <<>> THEN acc ELSE DigitsValue(10 * acc + Head(ds), Tail(ds))

\* faulty variant: the charts are given the value rounded to a whole number
calculateConvertedValue_Rounded(value, unitType, units) ==
    IF value = Null THEN Returned(Null)
    ELSE LET unitInfo == Lookup(CompareUnits[unitType], units[unitType])
         IN  IF unitInfo = Undefined THEN Threw("TypeError")
             ELSE LET shown == ToLocaleString(Div(value, unitInfo.factor), 0)
                  IN  Returned(Int2Num(DigitsValue(shown.int, shown.frac)))

\* MaterialCompareClientPage.calculateConvertedValue, lines 145-152
calculateConvertedValue(value, unitType, units) ==
    IF value = Null THEN Returned(Null)
    ELSE LET unitInfo == Lookup(CompareUnits[unitType], units[unitType])
         IN  IF unitInfo = Undefined THEN Threw("TypeError")
             ELSE Returned(Div(value, unitInfo.factor))

\* MaterialCompareClientPage.formatConvertedValueForDisplay, lines 155-167
formatConvertedValueForDisplay(value, unitType, units) ==
    IF value = Null THEN Returned(NotAvailable)
    ELSE LET unitInfo == Lookup(CompareUnits[unitType], units[unitType])
         IN  IF unitInfo = Undefined THEN Threw("TypeError")
             ELSE Returned(ToLocaleString(Div(value, unitInfo.factor),
                                          unitInfo.precision))

InitialUnits == [density |-> "kg/m3", modulus |-> "GPa", strength |-> "MPa"]

\* stored SI values handed to the conversion functions: densities in kg/m3,
\* moduli and strengths in Pa (null where the material has no value)
StoredValues(unitType) ==
    IF unitType = "density"
        THEN {Null, Int2Num(0), Int2Num(1000), Int2Num(2700), Int2Num(7850)}
        ELSE {Null, Int2Num(0), MkNum(25, 1, 7), MkNum(2, 1, 11),
              MkNum(689476, 1, 2)}

\* handleUnitChange(field, value) of the mounted page; value is any string.
\* The page renders again, so no value converted before is on display.
handleUnitChange ==
    /\ \E field \in UnitTypes, value \in UnitNames :
          selectedUnits' = [selectedUnits EXCEPT ![field] = value]
    /\ conversion' = NoCall
    /\ UNCHANGED <<beamCall, radarMaterials, normalizedData, page, database, seedStep, orderedMaterials, tableVars>>

\* the table page is left for the compare page (handleCompare) or the
\* compare page for the table: the page mounted next starts from its
\* initial state
Navigate ==
    /\ page' = IF page = "table" THEN "compare" ELSE "table"
    /\ selectedUnits' = InitialUnits
    /\ conversion' = NoCall
    /\ UNCHANGED <<beamCall, radarMaterials, normalizedData, database, seedStep, orderedMaterials, tableVars>>

ConversionCall(fn, value, unitType, out) ==
    [fn |-> fn, value |-> value, unitType |-> unitType,
     unit |-> selectedUnits[unitType], out |-> out]

CallConvertValue ==
    /\ page = "table"
    /\ \E unitType \in UnitTypes : \E value \in StoredValues(unitType) :
          conversion' = ConversionCall("convertValue", value, unitType,
                            convertValue(value, unitType, selectedUnits))
    /\ UNCHANGED <<beamCall, radarMaterials, normalizedData, page, selectedUnits, database, seedStep, orderedMaterials, tableVars>>

CallCalculateConvertedValue ==
    /\ page = "compare"
    /\ \E unitType \in UnitTypes : \E value \in StoredValues(unitType) :
          conversion' = ConversionCall("calculateConvertedValue", value, unitType,
                            calculateConvertedValue(value, unitType, selectedUnits))
    /\ UNCHANGED <<beamCall, radarMaterials, normalizedData, page, selectedUnits, database, seedStep, orderedMaterials, tableVars>>

CallFormatConvertedValueForDisplay ==
    /\ page = "compare"
    /\ \E unitType \in UnitTypes : \E value \in StoredValues(unitType) :
          conversion' =
              ConversionCall("formatConvertedValueForDisplay", value, unitType,
                  formatConvertedValueForDisplay(value, unitType, selectedUnits))
    /\ UNCHANGED <<beamCall, radarMaterials, normalizedData, page, selectedUnits, database, seedStep, orderedMaterials, tableVars>>

InitUnits == InitBeam

NextUnits ==
    \/ handleUnitChange
    \/ Navigate
    \/ CallConvertValue
    \/ CallCalculateConvertedValue
    \/ CallFormatConvertedValueForDisplay

SpecUnits == InitUnits /\ [][NextUnits]_vars

(***************************************************************************)
(* The compare page and its charts                                         *)
(***************************************************************************)
\* material.thermalExpansionCoefficient ?
\*     material.thermalExpansionCoefficient * 1e6 : null
\* (null and 0 are falsy)
ChartExpansion(tec) ==
    IF tec # Null /\ ~IsZero(tec) THEN Mul(tec, MkNum(1, 1, 6)) ELSE Null

\* chartData, lines 179-192: one entry per ordered material, with the raw
\* converted numbers under the selected units
chartData(materials, units) ==
    [i \in 1..Len(materials) |->
        LET material == materials[i]
        IN  [name |-> material.name,
             density |->
                 calculateConvertedValue(material.density, "density", units).value,
             youngsModulus |->
                 calculateConvertedValue(material.youngsModulus, "modulus",
                                         units).value,
             yieldStrength |->
                 calculateConvertedValue(material.yieldStrength, "strength",
                                         units).value,
             ultimateTensileStrength |->
                 calculateConvertedValue(material.ultimateTensileStrength,
                                         "strength", units).value,
             shearModulus |->
                 calculateConvertedValue(material.shearModulus, "modulus",
                                         units).value,
             thermalExpansionCoefficient |->
                 ChartExpansion(material.thermalExpansionCoefficient)]]

\* at most MaxCompared stored materials are opened on the compare page
MaxCompared == 3

StoredRow(name, d, e, ys, uts, g, tec) ==
    [name |-> name, density |-> d, youngsModulus |-> e, yieldStrength |-> ys,
     ultimateTensileStrength |-> uts, shearModulus |-> g,
     thermalExpansionCoefficient |-> tec]

\* lb/ft3 and ksi in SI units
PoundPerCubicFoot == MkNum(160185, 1, -4)

Ksi == MkNum(689476, 1, 1)

\* rows of the Material table in SI units (kg/m3, Pa, 1/K): densities of 100,
\* 200 and 400 lb/ft3 and moduli and strengths of whole ksi, so that the
\* converted values and their quotients stay inside the integers of the
\* model checker; a column may be null, and nothing keeps a column from
\* holding 0
StoredMaterials ==
    LET lb(k)  == Mul(Int2Num(k), PoundPerCubicFoot)
        ksi(k) == Mul(Int2Num(k), Ksi)
    IN  << StoredRow("m1", lb(100), ksi(10000), ksi(10), ksi(20), ksi(4000),
                     MkNum(12, 1, -6)),
           StoredRow("m2", lb(200), ksi(30000), ksi(40), ksi(50), Null,
                     MkNum(23, 1, -6)),
           StoredRow("m3", lb(400), ksi(20000), ksi(20), Null, ksi(8000),
                     Int2Num(0)),
           StoredRow("m4", Int2Num(0), Int2Num(0), Int2Num(0), Int2Num(0),
                     Int2Num(0), Null),
           StoredRow("m5", Null, Null, ksi(80), ksi(90), Null,
                     MkNum(9, 1, -6)) >>

\* orderedIds: up to MaxCompared distinct rows, here in the order of the
\* table (the order of the ids only orders the columns of the page)
OrderedIds ==
    {ids \in UNION {[1..n -> DOMAIN StoredMaterials] : n \in 1..MaxCompared} :
        \A j, k \in DOMAIN ids : j < k => ids[j] < ids[k]}

\* the radar chart of the compare page as it is after a render of the page:
\* mounted charts map over the chartData of this render
RadarAfterRender(shown, materials, units) ==
    /\ radarMaterials' =
           IF shown THEN MaterialsAfterMap(chartData(materials, units)) ELSE <<>>
    /\ normalizedData' =
           IF shown THEN ComputeNormalizedData(chartData(materials, units))
           ELSE <<>>

\* handleCompare of the table: the compare page is opened with the chosen
\* materials, in its initial state (no radar chart shown)
OpenComparePage ==
    /\ page = "table"
    /\ \E ids \in OrderedIds :
          orderedMaterials' = [k \in DOMAIN ids |-> StoredMaterials[ids[k]]]
    /\ page' = "compare"
    /\ selectedUnits' = InitialUnits
    /\ conversion' = NoCall
    /\ UNCHANGED <<beamCall, radarMaterials, normalizedData, database, seedStep, tableVars>>

\* the link back to the materials table
BackToTable ==
    /\ page = "compare"
    /\ page' = "table"
    /\ selectedUnits' = InitialUnits
    /\ orderedMaterials' = <<>>
    /\ radarMaterials' = <<>>
    /\ normalizedData' = <<>>
    /\ conversion' = NoCall
    /\ UNCHANGED <<beamCall, database, seedStep, tableVars>>

\* the Show / Hide Radar Chart button
ToggleRadarChart ==
    /\ page = "compare"
    /\ RadarAfterRender(radarMaterials = <<>>, orderedMaterials, selectedUnits)
    /\ UNCHANGED <<beamCall, page, selectedUnits, conversion, database, seedStep, orderedMaterials, tableVars>>

\* faulty variant: every selector offers the units of all classes
SelectUnit_AnyOption ==
    /\ \E field \in UnitTypes, value \in UnitNames :
          /\ selectedUnits' = [selectedUnits EXCEPT ![field] = value]
          /\ RadarAfterRender(radarMaterials # <<>>, orderedMaterials,
                              selectedUnits')
    /\ conversion' = NoCall
    /\ UNCHANGED <<beamCall, page, database, seedStep, orderedMaterials, tableVars>>

\* a unit selector of the mounted page: its options are the keys of the
\* unit table of its class, and onChange calls handleUnitChange(field,
\* e.target.value); the page renders again
SelectUnit ==
    /\ \E field \in UnitTypes :
          \E value \in DOMAIN (IF page = "table" THEN TableUnits
                                ELSE CompareUnits)[field] :
              /\ selectedUnits' = [selectedUnits EXCEPT ![field] = value]
              /\ RadarAfterRender(radarMaterials # <<>>, orderedMaterials,
                                  selectedUnits')
    /\ conversion' = NoCall
    /\ UNCHANGED <<beamCall, page, database, seedStep, orderedMaterials, tableVars>>

InitCompare == InitBeam

NextCompare == OpenComparePage \/ BackToTable \/ ToggleRadarChart \/ SelectUnit

SpecCompare == InitCompare /\ [][NextCompare]_vars

(***************************************************************************)
(* MaterialsTable: selection for comparison, filters, sorting, pagination  *)
(***************************************************************************)
\* the ids handleSelectMaterial is called with
MaxSelectable == 7

SelectableIds == 1..MaxSelectable

\* faulty variant: an id is added while no more than the limit are selected
ToggleSelected_AtLimit(prev, id) ==
    IF \E k \in DOMAIN prev : prev[k] = id
        THEN SelectSeq(prev, LAMBDA selectedId : selectedId # id)
    ELSE IF Len(prev) <= MAX_COMPARE_ITEMS THEN Append(prev, id)
    ELSE prev

\* the updater handleSelectMaterial hands to setSelectedIds
ToggleSelected(prev, id) ==
    IF \E k \in DOMAIN prev : prev[k] = id
        THEN SelectSeq(prev, LAMBDA selectedId : selectedId # id)
    ELSE IF Len(prev) < MAX_COMPARE_ITEMS THEN Append(prev, id)
    ELSE prev

handleSelectMaterial ==
    /\ page = "table"
    /\ \E id \in SelectableIds : selectedIds' = ToggleSelected(selectedIds, id)
    /\ UNCHANGED <<beamCall, radarMaterials, normalizedData, page, selectedUnits,
                   conversion, database, seedStep, orderedMaterials, searchTerm,
                   selectedCategory, sortColumn, sortDirection, currentPage,
                   itemsPerPage>>

InitSelect == InitBeam

NextSelect == handleSelectMaterial

SpecSelect == InitSelect /\ [][NextSelect]_vars

\* initialMaterials: MaxRows rows; the name of a row is a capital and two
\* small letters, different for every row, and every second row is a polymer
MaxRows == 30

Capitals == <<"A", "B", "C", "D">>

Smalls == <<"a", "b", "c", "d">>

RowName(k) ==
    <<Capitals[((k \div 16) % 4) + 1], Smalls[((k \div 4) % 4) + 1],
      Smalls[(k % 4) + 1]>>

initialMaterials ==
    [k \in 1..MaxRows |->
        [id |-> k, name |-> RowName(k),
         category |-> IF k % 2 = 0 THEN "Plastic" ELSE "Steel"]]

\* String.prototype.toLowerCase, character by character
toLowerCase(str) ==
    [k \in DOMAIN str |->
        IF \E j \in DOMAIN Capitals : Capitals[j] = str[k]
            THEN Smalls[CHOOSE j \in DOMAIN Capitals : Capitals[j] = str[k]]
            ELSE str[k]]

\* String.prototype.includes
includes(str, part) ==
    \E start \in 0..(Len(str) - Len(part)) :
        \A k \in DOMAIN part : str[start + k] = part[k]

\* the filter of sortedMaterials, lines 296-303
filtered(term, category) ==
    SelectSeq(initialMaterials,
              LAMBDA material :
                  /\ includes(toLowerCase(material.name), toLowerCase(term))
                  /\ (category = "all" \/ material.category = category))

\* sortedMaterials.length: the sort orders a copy of the filtered rows
totalItems(term, category) == Len(filtered(term, category))

\* Math.ceil(totalItems / itemsPerPage)
totalPages(term, category, perPage) ==
    (totalItems(term, category) + perPage - 1) \div perPage

\* what can be typed into the search box
SearchTerms == {<<>>, <<"a">>, <<"A", "b">>, <<"z">>}

\* the options of the category selector
categories == {"all", "Plastic", "Steel"}

\* the sortable columns the header is clicked on
SortableColumns == {"name", "category", "density"}

\* the columns of MaterialsTable changed by none of its pagination handlers
TableFrame ==
    UNCHANGED <<beamCall, radarMaterials, normalizedData, page, selectedUnits,
                conversion, database, seedStep, orderedMaterials, selectedIds>>

\* faulty variant: sorting keeps the page
handleSort_KeepsPage ==
    /\ page = "table"
    /\ \E column \in SortableColumns :
          IF sortColumn = column
              THEN /\ sortDirection' = IF sortDirection = "asc" THEN "desc" ELSE "asc"
                   /\ UNCHANGED sortColumn
              ELSE /\ sortColumn' = column
                   /\ sortDirection' = "asc"
    /\ UNCHANGED <<searchTerm, selectedCategory, itemsPerPage, currentPage>>
    /\ TableFrame

\* a click on the header of a sortable column
handleSort ==
    /\ page = "table"
    /\ \E column \in SortableColumns :
          IF sortColumn = column
              THEN /\ sortDirection' = IF sortDirection = "asc" THEN "desc" ELSE "asc"
                   /\ UNCHANGED sortColumn
              ELSE /\ sortColumn' = column
                   /\ sortDirection' = "asc"
    /\ currentPage' = 1
    /\ UNCHANGED <<searchTerm, selectedCategory, itemsPerPage>>
    /\ TableFrame

\* the Next button: rendered while there is more than one page, disabled on
\* the last page
handleNextPage ==
    /\ page = "table"
    /\ totalPages(searchTerm, selectedCategory, itemsPerPage) > 1
    /\ currentPage # totalPages(searchTerm, selectedCategory, itemsPerPage)
    /\ currentPage' =
           IF currentPage + 1 < totalPages(searchTerm, selectedCategory, itemsPerPage)
               THEN currentPage + 1
               ELSE totalPages(searchTerm, selectedCategory, itemsPerPage)
    /\ UNCHANGED <<searchTerm, selectedCategory, sortColumn, sortDirection,
                   itemsPerPage>>
    /\ TableFrame

\* the Previous button: rendered while there is more than one page, disabled
\* on the first page
handlePrevPage ==
    /\ page = "table"
    /\ totalPages(searchTerm, selectedCategory, itemsPerPage) > 1
    /\ currentPage # 1
    /\ currentPage' = IF currentPage - 1 > 1 THEN currentPage - 1 ELSE 1
    /\ UNCHANGED <<searchTerm, selectedCategory, sortColumn, sortDirection,
                   itemsPerPage>>
    /\ TableFrame

\* onChange of the search box, and the reset effect that follows a change
SearchChange ==
    /\ page = "table"
    /\ \E term \in SearchTerms \ {searchTerm} : searchTerm' = term
    /\ currentPage' = 1
    /\ UNCHANGED <<selectedCategory, sortColumn, sortDirection, itemsPerPage>>
    /\ TableFrame

\* onChange of the category selector, and the reset effect
CategoryChange ==
    /\ page = "table"
    /\ \E category \in categories \ {selectedCategory} :
          selectedCategory' = category
    /\ currentPage' = 1
    /\ UNCHANGED <<searchTerm, sortColumn, sortDirection, itemsPerPage>>
    /\ TableFrame

\* onChange of the items-per-page selector, and the reset effect
handleItemsPerPageChange ==
    /\ page = "table"
    /\ \E newItemsPerPage \in ITEMS_PER_PAGE_OPTIONS \ {itemsPerPage} :
          itemsPerPage' = newItemsPerPage
    /\ currentPage' = 1
    /\ UNCHANGED <<searchTerm, selectedCategory, sortColumn, sortDirection>>
    /\ TableFrame

InitPaging == InitBeam

NextPaging ==
    \/ handleSort
    \/ handleNextPage
    \/ handlePrevPage
    \/ SearchChange
    \/ CategoryChange
    \/ handleItemsPerPageChange

SpecPaging == InitPaging /\ [][NextPaging]_vars

(***************************************************************************)
(* Seeding of the materials table: src/prisma/seed.ts                      *)
(***************************************************************************)
\* faulty variant: the denominator is 2 + v
calculateShearModulus_WrongDenominator(youngsModulus, poissonsRatio) ==
    IF youngsModulus = Null \/ poissonsRatio = Null THEN Null
    ELSE IF Leq(poissonsRatio, Int2Num(-1)) THEN Null
    ELSE Div(youngsModulus, Add(Int2Num(2), poissonsRatio))

\* G = E / (2 * (1 + v)), or null
calculateShearModulus(youngsModulus, poissonsRatio) ==
    IF youngsModulus = Null \/ poissonsRatio = Null THEN Null
    ELSE IF Leq(poissonsRatio, Int2Num(-1)) THEN Null
    ELSE Div(youngsModulus, Mul(Int2Num(2), Add(Int2Num(1), poissonsRatio)))

\* the optional fields of MaterialData that the model carries (the others are
\* copied by the same loop)
optionalFields == {"youngsModulus", "poissonsRatio"}

\* the upsert payload: name and category, every optional field that is not
\* null, and the shear modulus supplied or else calculated, if not null
createMaterialPayload(mat, calculatedShearModulus) ==
    LET finalShearModulus ==
            IF mat.shearModulus # Null THEN mat.shearModulus
            ELSE calculatedShearModulus
        value(k) == IF k = "shearModulus" THEN finalShearModulus ELSE mat[k]
    IN  [k \in {"name", "category"}
                \cup {f \in optionalFields \cup {"shearModulus"} : value(f) # Null}
            |-> value(k)]

\* the columns of a row besides its name
Columns == {"category", "youngsModulus", "poissonsRatio", "shearModulus"}

\* prisma.material.upsert({where: {name}, update: payload, create: payload}):
\* an existing row keeps the columns the payload does not name, a new row
\* has them null
upsert(table, name, payload) ==
    IF name \in DOMAIN table
        THEN [table EXCEPT ![name] =
                 [c \in Columns |-> IF c \in DOMAIN payload THEN payload[c] ELSE @[c]]]
        ELSE [n \in DOMAIN table \cup {name} |->
                 IF n = name
                     THEN [c \in Columns |->
                              IF c \in DOMAIN payload THEN payload[c] ELSE Null]
                     ELSE table[n]]

\* the entries materialsToSeed may hold, and how many of them are processed
MaxSeeded == 2

SeedNames == {"Steel", "Foam"}

materialsToSeed ==
    [name : SeedNames, category : {"Metal"},
     youngsModulus : {Null, MkNum(21, 1, 10)},
     poissonsRatio : {Null, Int2Num(-2), Int2Num(-1), Frac(-1, 2), Frac(3, 10)},
     shearModulus : {Null, MkNum(8, 1, 10)}]

SeedIndex == IF seedStep = NoCall THEN 0 ELSE seedStep.index

\* one iteration of the loop of main: the shear modulus is calculated, the
\* payload built and upserted; an upsert that throws is logged and skipped
SeedMaterial ==
    /\ SeedIndex < MaxSeeded
    /\ \E mat \in materialsToSeed :
          LET calculatedShearModulus ==
                  calculateShearModulus(mat.youngsModulus, mat.poissonsRatio)
              payload == createMaterialPayload(mat, calculatedShearModulus)
              step(written) ==
                  [fn |-> "upsert", index |-> SeedIndex + 1, mat |-> mat,
                   calculatedShearModulus |-> calculatedShearModulus,
                   payload |-> payload, written |-> written]
          IN  \/ /\ database' = upsert(database, mat.name, payload)
                 /\ seedStep' = step(TRUE)
              \/ /\ database' = database
                 /\ seedStep' = step(FALSE)
    /\ UNCHANGED <<beamCall, radarMaterials, normalizedData, page, selectedUnits, conversion, orderedMaterials, tableVars>>

InitSeed == InitBeam

NextSeed == SeedMaterial

SpecSeed == InitSeed /\ [][NextSeed]_vars

(***************************************************************************)
(* Claims about the beam solver                                            *)
(***************************************************************************)
InSpan(L, p) == Leq(Zero, p) /\ Leq(p, L)

NonDegenerate(c) == ~IsZero(c.E) /\ ~IsZero(c.I) /\ ~IsZero(c.L)

\* the closed form of spec section 4.2, written out from the arguments
ClosedForm(L, P, E, I, a, x) ==
    LET b == Sub(L, a)
        u == Sub(L, x)
        k == Mul(Mul(Mul(Int2Num(6), E), I), L)
    IN  IF Leq(x, a)
            THEN Mul(Div(Mul(Mul(P, b), x), k),
                     Sub(Mul(L, L), Add(Mul(b, b), Mul(x, x))))
        ELSE Mul(Div(Mul(Mul(P, a), u), k),
                 Sub(Mul(L, L), Add(Mul(a, a), Mul(u, u))))

\* C1: with E, I, L non-zero and a, x inside the span, the deflection returned
\* is (P b x)/(6 E I L) (L^2 - b^2 - x^2) for x <= a and
\* (P a (L-x))/(6 E I L) (L^2 - a^2 - (L-x)^2) for x > a, with b = L - a.
C1_DeflectionClosedForm ==
    (beamCall.fn = "deflectionAt" /\ NonDegenerate(beamCall)
        /\ InSpan(beamCall.L, beamCall.a) /\ InSpan(beamCall.L, beamCall.x))
    => /\ beamCall.out.threw = "none"
       /\ Eq(beamCall.out.value,
             ClosedForm(beamCall.L, beamCall.P, beamCall.E, beamCall.I,
                        beamCall.a, beamCall.x))

\* a call on each branch's side: load at 1/2 of a span of 2, evaluated at 1 (> a)
C1_Witness ==
    /\ beamCall.fn = "deflectionAt"
    /\ NonDegenerate(beamCall)
    /\ Eq(beamCall.L, Int2Num(2)) /\ Eq(beamCall.a, Frac(1, 2))
    /\ Eq(beamCall.x, Int2Num(1))
    /\ Eq(beamCall.P, Int2Num(1)) /\ Eq(beamCall.E, Int2Num(1))
    /\ Eq(beamCall.I, Int2Num(1))
    /\ Eq(beamCall.out.value, Frac(11, 96))

\* C2: for L, P, E, I > 0 and 0 < a < L the magnitude returned by
\* calculateSimpleBeamMaxDeflection is at least the deflection at every x of
\* the span.
C2_MaxIsGlobalMaximum ==
    (beamCall.fn = "maxDeflection"
        /\ Less(Zero, beamCall.L) /\ Less(Zero, beamCall.P)
        /\ Less(Zero, beamCall.E) /\ Less(Zero, beamCall.I)
        /\ Less(Zero, beamCall.a) /\ Less(beamCall.a, beamCall.L))
    => /\ beamCall.out.kind = "result"
       /\ \A x \in Positions :
              InSpan(beamCall.L, x) =>
                  Leq(calculateSimpleBeamPointLoadDeflection(
                          beamCall.L, beamCall.P, beamCall.E, beamCall.I,
                          beamCall.a, x).value,
                      beamCall.out.maxDeflection)

OutOfSpan(c) == ~InSpan(c.L, c.a) \/ ~InSpan(c.L, c.x)

AtOrBeyondSupport(c) == Leq(c.a, Zero) \/ Leq(c.L, c.a)

\* C4 as stated: with the load at or beyond a support the call fails, whatever
\* L, P, E and I are, and returns no {maxDeflection, location}.  (null, the
\* failure value of the code, is taken for the failure.)
C4_SupportLoadFails ==
    (beamCall.fn = "maxDeflection" /\ AtOrBeyondSupport(beamCall))
    => /\ beamCall.out.threw = "InvalidInputError" \/ beamCall.out.kind = "null"
       /\ beamCall.out.kind # "result"

\* C4 as amended: with the load at or beyond a support the call returns null
\* after logging an error when L, P, E and I are all non-zero, and returns
\* {maxDeflection: 0, location: L/2} when one of L, P, E, I is zero.
C4_SupportLoadNullUnlessDegenerate ==
    (beamCall.fn = "maxDeflection" /\ AtOrBeyondSupport(beamCall))
    => /\ beamCall.out.threw = "none"
       /\ IF NonDegenerate(beamCall) /\ ~IsZero(beamCall.P)
              THEN beamCall.out.kind = "null" /\ beamCall.out.logged = "a"
              ELSE /\ beamCall.out.kind = "result"
                   /\ IsZero(beamCall.out.maxDeflection)
                   /\ Eq(beamCall.out.location, Div(beamCall.L, Int2Num(2)))
                   /\ beamCall.out.logged = "none"

\* the load exactly at the left support of a loaded, stiff beam
C4_Witness ==
    /\ beamCall.fn = "maxDeflection"
    /\ NonDegenerate(beamCall) /\ ~IsZero(beamCall.P)
    /\ IsZero(beamCall.a)
    /\ beamCall.out.kind = "null"

\* C12: continuity at the load.  For valid L, P, E, I and 0 <= a <= L the
\* formula of the left segment and the formula of the right segment give the
\* same value at x = a, which is the value the call returns there.
C12_BranchesAgreeAtLoad ==
    (beamCall.fn = "deflectionAt" /\ NonDegenerate(beamCall)
        /\ InSpan(beamCall.L, beamCall.a) /\ Eq(beamCall.x, beamCall.a))
    => LET left  == LeftSegmentDeflection(beamCall.L, beamCall.P, beamCall.E,
                        beamCall.I, beamCall.a, beamCall.a)
           right == RightSegmentDeflection(beamCall.L, beamCall.P, beamCall.E,
                        beamCall.I, beamCall.a, beamCall.a)
       IN  /\ Eq(left, right)
           /\ beamCall.out.threw = "none"
           /\ Eq(beamCall.out.value, right)

\* evaluated at an off-centre load: L = 4, a = x = 1 gives 3/4
C12_Witness ==
    /\ beamCall.fn = "deflectionAt"
    /\ Eq(beamCall.L, Int2Num(4)) /\ Eq(beamCall.a, Int2Num(1))
    /\ Eq(beamCall.x, Int2Num(1))
    /\ Eq(beamCall.P, Int2Num(1)) /\ Eq(beamCall.E, Int2Num(1))
    /\ Eq(beamCall.I, Int2Num(1))
    /\ Eq(beamCall.out.value, Frac(3, 4))

\* a call with the load and the evaluation point at midspan
CenterLoadCall ==
    \/ beamCall.fn = "calculateBeamDeflection"
    \/ /\ beamCall.fn = "deflectionAt"
       /\ Eq(beamCall.a, Div(beamCall.L, Int2Num(2)))
       /\ Eq(beamCall.x, Div(beamCall.L, Int2Num(2)))

\* P L^3 / (48 E I)
CenterLoadClosedForm(c) ==
    Div(Mul(c.P, Mul(c.L, Mul(c.L, c.L))), Mul(Int2Num(48), Mul(c.E, c.I)))

\* C13 as stated: for every L, P, E, I with E, I, L non-zero the deflection
\* at midspan under a midspan load is P L^3 / (48 E I), from
\* calculateSimpleBeamPointLoadDeflection(L, P, E, I, L/2, L/2) and from
\* calculateBeamDeflection(L, P, E, I) alike.
C13_CenterLoadClosedForm ==
    (CenterLoadCall /\ NonDegenerate(beamCall))
    => /\ beamCall.out.threw = "none"
       /\ Eq(beamCall.out.value, CenterLoadClosedForm(beamCall))

\* C13 as amended: for L > 0 and E, I non-zero both calls return
\* P L^3 / (48 E I); for L < 0 both log an error about 'a' and return 0.
C13_CenterLoadClosedFormPositiveLength ==
    (CenterLoadCall /\ NonDegenerate(beamCall))
    => /\ beamCall.out.threw = "none"
       /\ IF Less(Zero, beamCall.L)
              THEN /\ Eq(beamCall.out.value, CenterLoadClosedForm(beamCall))
                   /\ beamCall.out.logged = "none"
              ELSE /\ IsZero(beamCall.out.value)
                   /\ beamCall.out.logged = "a"

\* calculateBeamDeflection(2, 1, 1, 1) = 8/48
C13_Witness ==
    /\ beamCall.fn = "calculateBeamDeflection"
    /\ Eq(beamCall.L, Int2Num(2)) /\ Eq(beamCall.P, Int2Num(1))
    /\ Eq(beamCall.E, Int2Num(1)) /\ Eq(beamCall.I, Int2Num(1))
    /\ Eq(beamCall.out.value, Frac(1, 6))

\* C14: whenever E = 0 or I = 0 or L = 0 the deflection returned is 0 and the
\* call does not fail (nothing thrown, nothing logged), whatever P, a and x.
C14_DegenerateDeflectionIsZero ==
    (beamCall.fn = "deflectionAt" /\ ~NonDegenerate(beamCall))
    => /\ beamCall.out.threw = "none"
       /\ beamCall.out.value = Zero
       /\ beamCall.out.logged = "none"

\* zero stiffness together with a load and a position outside the span
C14_Witness ==
    /\ beamCall.fn = "deflectionAt"
    /\ IsZero(beamCall.E) /\ Less(Zero, beamCall.L) /\ ~IsZero(beamCall.P)
    /\ Less(beamCall.a, Zero) /\ Less(beamCall.L, beamCall.x)
    /\ beamCall.out.value = Zero

\* C15: whenever P = 0 or E = 0 or I = 0, calculateSimpleBeamMaxDeflection
\* returns {maxDeflection: 0, location: L/2} and does not fail.
C15_DegenerateMaxDeflection ==
    (beamCall.fn = "maxDeflection"
        /\ (IsZero(beamCall.P) \/ IsZero(beamCall.E) \/ IsZero(beamCall.I)))
    => /\ beamCall.out.threw = "none"
       /\ beamCall.out.kind = "result"
       /\ IsZero(beamCall.out.maxDeflection)
       /\ Eq(beamCall.out.location, Div(beamCall.L, Int2Num(2)))

\* zero load on a stiff beam of length 3, the load position at the left support
C15_Witness ==
    /\ beamCall.fn = "maxDeflection"
    /\ IsZero(beamCall.P) /\ NonDegenerate(beamCall)
    /\ Eq(beamCall.L, Int2Num(3)) /\ IsZero(beamCall.a)
    /\ beamCall.out.kind = "result"
    /\ Eq(beamCall.out.location, Frac(3, 2))

\* the location the maximum is reported at, as C16 states it
StatedLocation(L, a) ==
    LET b  == Sub(L, a)
        LL == Mul(L, L)
    IN  IF Leq(a, b)
            THEN Sqrt(Div(Sub(LL, Mul(b, b)), Int2Num(3)))
        ELSE Sub(L, Sqrt(Div(Sub(LL, Mul(a, a)), Int2Num(3))))

C21_LocationOnNamedSide ==
    (beamCall.fn = "maxDeflection" /\ Less(Zero, beamCall.L)
        /\ Less(Zero, beamCall.a) /\ Less(beamCall.a, beamCall.L)
        /\ ~IsZero(beamCall.P) /\ ~IsZero(beamCall.E) /\ ~IsZero(beamCall.I))
    => /\ beamCall.out.kind = "result"
       /\ IF Leq(beamCall.a, Sub(beamCall.L, beamCall.a))
              THEN /\ Less(Zero, beamCall.out.location)
                   /\ Leq(beamCall.out.location, beamCall.a)
              ELSE /\ Leq(beamCall.a, beamCall.out.location)
                   /\ Less(beamCall.out.location, beamCall.L)

\* a valid call of the point-load function: E, I, L non-zero, a and x in span
ValidDeflectionCall ==
    /\ beamCall.fn = "deflectionAt" /\ NonDegenerate(beamCall)
    /\ InSpan(beamCall.L, beamCall.a) /\ InSpan(beamCall.L, beamCall.x)

\* a call of the maximum function with the load strictly inside the span
InteriorMaxCall ==
    /\ beamCall.fn = "maxDeflection" /\ Less(Zero, beamCall.L)
    /\ Less(Zero, beamCall.a) /\ Less(beamCall.a, beamCall.L)

\* C25: mirror symmetry.  A valid call at (a, x) returns what the call at
\* (L - a, L - x) returns; and for 0 < a < L the maximum for the load at
\* L - a has the same magnitude as the maximum for the load at a, at the
\* location L minus the location for a.
C25_MirrorSymmetry ==
    /\ ValidDeflectionCall =>
           \A mirrored \in {calculateSimpleBeamPointLoadDeflection(
                                beamCall.L, beamCall.P, beamCall.E, beamCall.I,
                                Sub(beamCall.L, beamCall.a),
                                Sub(beamCall.L, beamCall.x))} :
               /\ beamCall.out.threw = "none" /\ mirrored.threw = "none"
               /\ mirrored.logged = "none"
               /\ Eq(beamCall.out.value, mirrored.value)
    /\ InteriorMaxCall =>
           \A mirrored \in {calculateSimpleBeamMaxDeflection(
                                beamCall.L, beamCall.P, beamCall.E, beamCall.I,
                                Sub(beamCall.L, beamCall.a))} :
               /\ beamCall.out.kind = "result" /\ mirrored.kind = "result"
               /\ Eq(beamCall.out.maxDeflection, mirrored.maxDeflection)
               /\ Eq(mirrored.location, Sub(beamCall.L, beamCall.out.location))

\* the maximum for a load at a quarter of the span of 4: the location is off
\* midspan, and its mirror image is the location for the load at 3
C25_Witness ==
    /\ InteriorMaxCall
    /\ Eq(beamCall.L, Int2Num(4)) /\ Eq(beamCall.a, Int2Num(1))
    /\ ~IsZero(beamCall.P) /\ ~IsZero(beamCall.E) /\ ~IsZero(beamCall.I)
    /\ beamCall.out.kind = "result"
    /\ ~Eq(beamCall.out.location, Int2Num(2))
    /\ ~IsZero(beamCall.out.maxDeflection)
    /\ Eq(calculateSimpleBeamMaxDeflection(beamCall.L, beamCall.P, beamCall.E,
              beamCall.I, Int2Num(3)).location,
          Sub(Int2Num(4), beamCall.out.location))


(***************************************************************************)
(* Claims about the radar-chart normalizer                                 *)
(***************************************************************************)
Rendered == radarMaterials # <<>>

AxisIndexes == 1..Len(radarProperties)

MaterialIndexes == 1..Len(radarMaterials)

\* the score the chart holds for material i on axis p
Score(p, i) == normalizedData[p][radarMaterials[i].name]

\* the value material i has on axis p after the extraction pass
AxisValue(p, i) == processedMaterials(radarMaterials)[i][radarProperties[p].key]

\* the defined values of the materials ms on the property key
DefinedValues(ms, key) ==
    {ms[i][key] : i \in {j \in DOMAIN ms : IsNumber(ms[j][key])}}

MinOf(S) == CHOOSE v \in S : \A w \in S : Leq(v, w)

MaxOf(S) == CHOOSE v \in S : \A w \in S : Leq(w, v)

\* C5: for every material set and every axis there is exactly one score per
\* (material, axis) pair, and it lies in [0, 100].
C5_ScoresTotalAndBounded ==
    Rendered =>
        /\ Len(normalizedData) = Len(radarProperties)
        /\ \A p \in AxisIndexes :
              /\ DOMAIN normalizedData[p] =
                     {"subject", "fullMark"}
                         \cup {radarMaterials[i].name : i \in MaterialIndexes}
              /\ \A i \in MaterialIndexes :
                     Leq(Zero, Score(p, i)) /\ Leq(Score(p, i), Hundred)

\* three materials, one of them with no property at all
C5_Witness ==
    /\ Len(radarMaterials) = 3
    /\ \E i \in MaterialIndexes : \A p \in AxisIndexes : ~IsNumber(AxisValue(p, i))
    /\ \E i \in MaterialIndexes, p \in AxisIndexes : Eq(Score(p, i), Zero)
    /\ \E i \in MaterialIndexes, p \in AxisIndexes : Eq(Score(p, i), Hundred)

\* C6: on an axis whose defined values have max > min, a material with the
\* defined value v scores t = (v - min) / (max - min) * 100 if the axis is
\* higherIsBetter and 100 - t if not.
C6_MinMaxScore ==
    Rendered =>
        LET ms == processedMaterials(radarMaterials)
        IN  \A p \in AxisIndexes :
                LET key  == radarProperties[p].key
                    vals == DefinedValues(ms, key)
                    lo   == MinOf(vals)
                    hi   == MaxOf(vals)
                IN  (vals # {} /\ Less(lo, hi)) =>
                        \A i \in MaterialIndexes :
                            IsNumber(ms[i][key]) =>
                                LET t == Div(Mul(Sub(ms[i][key], lo), Hundred),
                                             Sub(hi, lo))
                                IN  Eq(Score(p, i),
                                       IF radarProperties[p].higherIsBetter THEN t
                                       ELSE Sub(Hundred, t))

\* yield strengths 10, 20, 30 score 0, 50, 100, and on the lower-is-better
\* density axis the lower density scores 100
C6_Witness ==
    /\ Len(radarMaterials) = 3
    /\ radarMaterials[1].yieldStrength = Int2Num(10)
    /\ radarMaterials[2].yieldStrength = Int2Num(20)
    /\ radarMaterials[3].yieldStrength = Int2Num(30)
    /\ radarProperties[3].key = "yieldStrength"
    /\ Eq(Score(3, 1), Zero) /\ Eq(Score(3, 2), Int2Num(50))
    /\ Eq(Score(3, 3), Hundred)
    /\ radarMaterials[1].density = Int2Num(0)
    /\ radarMaterials[2].density = Int2Num(5)
    /\ radarProperties[4].key = "density"
    /\ Eq(Score(4, 1), Hundred) /\ Eq(Score(4, 2), Zero)

\* C7: a material with no numeric value on an axis scores exactly 50 there,
\* whatever the other materials' values and the direction of the axis.
C7_MissingScoresFifty ==
    Rendered =>
        \A p \in AxisIndexes : \A i \in MaterialIndexes :
            ~IsNumber(AxisValue(p, i)) => Eq(Score(p, i), Int2Num(50))

\* a material without density beside two with different densities: 50 on the
\* density axis and on both derived axes
C7_Witness ==
    /\ Len(radarMaterials) = 3
    /\ ~IsNumber(radarMaterials[1].density)
    /\ IsNumber(radarMaterials[1].yieldStrength)
    /\ IsNumber(radarMaterials[1].youngsModulus)
    /\ IsNumber(radarMaterials[2].density) /\ IsNumber(radarMaterials[3].density)
    /\ Less(radarMaterials[2].density, radarMaterials[3].density)
    /\ \A p \in {4, 5, 6} : Eq(Score(p, 1), Int2Num(50))
    /\ Eq(Score(4, 2), Hundred)

\* C17: on an axis whose defined values are all identical (max = min, a
\* single defined value included) every material with a defined value scores
\* 100 if the axis is higherIsBetter and 0 if it is lower-is-better.
C17_TieScoresExtreme ==
    Rendered =>
        LET ms == processedMaterials(radarMaterials)
        IN  \A p \in AxisIndexes :
                LET key  == radarProperties[p].key
                    vals == DefinedValues(ms, key)
                IN  (vals # {} /\ Eq(MinOf(vals), MaxOf(vals))) =>
                        \A i \in MaterialIndexes :
                            IsNumber(ms[i][key]) =>
                                Eq(Score(p, i),
                                   IF radarProperties[p].higherIsBetter
                                       THEN Hundred ELSE Zero)

\* two materials of the same yield strength, of which only one has a density
C17_Witness ==
    /\ Len(radarMaterials) = 2
    /\ IsNumber(radarMaterials[1].yieldStrength)
    /\ radarMaterials[2].yieldStrength = radarMaterials[1].yieldStrength
    /\ IsNumber(radarMaterials[1].density) /\ ~IsNumber(radarMaterials[2].density)
    /\ Eq(Score(3, 1), Hundred) /\ Eq(Score(3, 2), Hundred)
    /\ Eq(Score(4, 1), Zero) /\ Eq(Score(4, 2), Int2Num(50))

\* the inputs of a derived axis are present numbers and the density is not 0
Derivable(mat, input) ==
    IsNumber(mat[input]) /\ IsNumber(mat.density) /\ ~IsZero(mat.density)

\* C18: a material has a value on specificStrength only if its yieldStrength
\* and density are both numbers and the density is not 0, and on
\* specificModulus only if its youngsModulus and density are; otherwise it has
\* no value on that axis, scores 50 there and is left out of the bar chart of
\* that axis.
C18_DerivedAxesNeedBothInputs ==
    Rendered =>
        \A i \in MaterialIndexes :
            /\ radarProperties[5].key = "specificModulus"
            /\ radarProperties[6].key = "specificStrength"
            /\ IsNumber(AxisValue(5, i)) <=> Derivable(radarMaterials[i], "youngsModulus")
            /\ IsNumber(AxisValue(6, i)) <=> Derivable(radarMaterials[i], "yieldStrength")
            /\ HasChartData(radarMaterials[i], "specificModulus")
                   <=> IsNumber(AxisValue(5, i))
            /\ HasChartData(radarMaterials[i], "specificStrength")
                   <=> IsNumber(AxisValue(6, i))
            /\ ~Derivable(radarMaterials[i], "youngsModulus")
                   => Eq(Score(5, i), Int2Num(50))
            /\ ~Derivable(radarMaterials[i], "yieldStrength")
                   => Eq(Score(6, i), Int2Num(50))

\* density 0, a missing density and a missing yield strength beside a material
\* that has both derived values
C18_Witness ==
    /\ Len(radarMaterials) = 3
    /\ IsNumber(radarMaterials[1].yieldStrength)
    /\ IsNumber(radarMaterials[1].density) /\ IsZero(radarMaterials[1].density)
    /\ ~IsNumber(radarMaterials[2].yieldStrength)
    /\ IsNumber(radarMaterials[2].density) /\ ~IsZero(radarMaterials[2].density)
    /\ IsNumber(radarMaterials[2].ultimateTensileStrength)
    /\ Derivable(radarMaterials[3], "yieldStrength")
    /\ Derivable(radarMaterials[3], "youngsModulus")
    /\ Eq(Score(6, 1), Int2Num(50)) /\ Eq(Score(6, 2), Int2Num(50))
    /\ Eq(Score(6, 3), Hundred)

\* two reorderings of a list that every other reordering is composed of: the
\* first two materials exchanged, and the first material moved to the end
Reorderings(ms) ==
    IF Len(ms) < 2 THEN {}
    ELSE {[k \in DOMAIN ms |-> IF k = 1 THEN ms[2] ELSE IF k = 2 THEN ms[1] ELSE ms[k]],
          Tail(ms) \o <<Head(ms)>>}

\* C19: on every axis the min and max a material is scored against are those
\* of the whole material set, whatever comes before or after the material in
\* the list, so the score of a material does not depend on the position of
\* any material in the list: the same materials given in another order get
\* the same scores.
C19_ScoresIndependentOfOrder ==
    Rendered =>
        \A reordered \in Reorderings(radarMaterials) :
            \A other \in {ComputeNormalizedData(reordered)} :
                \A p \in AxisIndexes, k \in MaterialIndexes :
                    Eq(other[p][radarMaterials[k].name], Score(p, k))

\* the extreme values come last in the list: yield strengths 20, 10, 30
C19_Witness ==
    /\ Len(radarMaterials) = 3
    /\ radarMaterials[1].yieldStrength = Int2Num(20)
    /\ radarMaterials[2].yieldStrength = Int2Num(10)
    /\ radarMaterials[3].yieldStrength = Int2Num(30)
    /\ Eq(Score(3, 1), Int2Num(50)) /\ Eq(Score(3, 2), Zero)
    /\ Eq(Score(3, 3), Hundred)


(***************************************************************************)
(* Claims about the unit conversion                                        *)
(***************************************************************************)
\* the unit table of spec section 4.1: SI units per display unit, and the
\* number of decimals shown
CanonicalUnits ==
    [density |->
        ("kg/m3" :> UnitInfo(Int2Num(1), 0)
         @@ "g/cm3" :> UnitInfo(Int2Num(1000), 3)
         @@ "lb/ft3" :> UnitInfo(Frac(160185, 10000), 3)),
     modulus |->
        ("GPa" :> UnitInfo(Int2Num(1000000000), 5)
         @@ "MPa" :> UnitInfo(Int2Num(1000000), 2)
         @@ "ksi" :> UnitInfo(Int2Num(6894760), 3)
         @@ "psi" :> UnitInfo(Frac(689476, 100), 0)),
     strength |->
        ("GPa" :> UnitInfo(Int2Num(1000000000), 5)
         @@ "MPa" :> UnitInfo(Int2Num(1000000), 2)
         @@ "ksi" :> UnitInfo(Int2Num(6894760), 3)
         @@ "psi" :> UnitInfo(Frac(689476, 100), 0))]

Registered(unitType, unit) == unit \in DOMAIN CanonicalUnits[unitType]

DisplayFns == {"convertValue", "formatConvertedValueForDisplay"}

\* C8: for every class and registered unit the number displayed for a non-null
\* SI value is siValue / factor with the canonical factor (shown with the
\* decimals of the unit), on the materials table and on the compare page
\* alike; 1000 kg/m3 is shown as 1 g/cm3.
C8_DisplaysSiOverCanonicalFactor ==
    (conversion.fn # "none" /\ conversion.value # Null
        /\ Registered(conversion.unitType, conversion.unit))
    => LET info   == CanonicalUnits[conversion.unitType][conversion.unit]
           expect == Div(conversion.value, info.factor)
       IN  /\ conversion.out.threw = "none"
           /\ IF conversion.fn \in DisplayFns
                  THEN conversion.out.value = ToLocaleString(expect, info.precision)
                  ELSE Eq(conversion.out.value, expect)

\* C9: whatever the class and the selected unit, a null stored value is
\* displayed as the string "N/A"; no error and no number comes out.
C9_NullDisplaysNotAvailable ==
    (conversion.fn \in DisplayFns /\ conversion.value = Null)
    => /\ conversion.out.threw = "none"
       /\ conversion.out.value = NotAvailable

\* null on the table under a unit that its class does not register, and null
\* on the compare page
C9_Witness ==
    /\ conversion.fn = "convertValue"
    /\ conversion.value = Null
    /\ ~Registered(conversion.unitType, conversion.unit)
    /\ conversion.out.value = NotAvailable

DisplayDigits(negative, int, f, p) ==
    [kind |-> "digits",
     negative |-> negative,
     int |-> IF f = Pow10(p) THEN int + 1 ELSE int,
     frac |-> TrimZeros(DigitsOf(IF f = Pow10(p) THEN 0 ELSE f, p))]

NearestDisplays(q, p) ==
    LET n     == Abs(q.n)
        d     == IF q.e < 0 THEN q.d * Pow10(-q.e) ELSE q.d
        whole == ShiftDigits(n \div d, n % d, d, IF q.e > 0 THEN q.e ELSE 0)
        frac  == ShiftDigits(0, whole.r, d, p)
    IN  {DisplayDigits(q.n < 0, whole.q, frac.q + k, p) :
            k \in {j \in {0, 1} : IF j = 0 THEN 2 * frac.r <= d
                                           ELSE 2 * frac.r >= d}}

\* C11: round trip.  For every class, every unit registered for it and every
\* SI value x, the displayed number s read back as s * factor (factor of the
\* unit table of spec section 4.1) is x to within the display precision:
\* |s * factor - x| <= factor * 0.5 * 10^(-precision).  The factor is positive,
\* so the inequality is checked divided through by it, as
\* |s - x / factor| <= 0.5 * 10^(-precision), which keeps every intermediate
\* number a machine integer.
C11_RoundTripWithinPrecision ==
    (conversion.fn \in DisplayFns /\ conversion.value # Null
        /\ Registered(conversion.unitType, conversion.unit))
    => LET info == CanonicalUnits[conversion.unitType][conversion.unit]
       IN  /\ conversion.out.threw = "none"
           /\ conversion.out.value \in
                  NearestDisplays(Div(conversion.value, info.factor),
                                  info.precision)

(***************************************************************************)
(* Claims about the seeding                                                *)
(***************************************************************************)
\* E and v are both present and v > -1
ShearComputable(mat) ==
    /\ mat.youngsModulus # Null /\ mat.poissonsRatio # Null
    /\ Less(Int2Num(-1), mat.poissonsRatio)

\* E / (2 (1 + v))
ShearFormula(mat) ==
    Div(Div(mat.youngsModulus, Int2Num(2)), Add(mat.poissonsRatio, Int2Num(1)))

\* C20: calculateShearModulus gives E / (2 (1 + v)) when E and v are present
\* and v > -1, and null when one of them is missing or v <= -1; a material
\* seeded without a shear modulus of its own, with E and v > -1, is written
\* with that value as its shearModulus, and a shear modulus that is supplied
\* is written as it is.
C20_ShearModulusSeeded ==
    seedStep.fn = "upsert" =>
        LET mat == seedStep.mat
        IN  /\ IF ShearComputable(mat)
                   THEN /\ seedStep.calculatedShearModulus # Null
                        /\ Eq(seedStep.calculatedShearModulus, ShearFormula(mat))
                   ELSE seedStep.calculatedShearModulus = Null
            /\ seedStep.written =>
                   /\ mat.name \in DOMAIN database
                   /\ (mat.shearModulus = Null /\ ShearComputable(mat)) =>
                          /\ database[mat.name].shearModulus # Null
                          /\ Eq(database[mat.name].shearModulus, ShearFormula(mat))
                   /\ mat.shearModulus # Null =>
                          database[mat.name].shearModulus = mat.shearModulus

\* a material seeded a second time, now without a shear modulus of its own:
\* E = 210e9 and v = 0.3 are written with G = 210e9 / 2.6
C20_Witness ==
    /\ seedStep.fn = "upsert" /\ seedStep.index = 2 /\ seedStep.written
    /\ seedStep.mat.shearModulus = Null
    /\ seedStep.mat.youngsModulus = MkNum(21, 1, 10)
    /\ seedStep.mat.poissonsRatio = Frac(3, 10)
    /\ Eq(database[seedStep.mat.name].shearModulus, Div(MkNum(21, 1, 11), Int2Num(26)))
    /\ Cardinality(DOMAIN database) = 1

\* the unit table the function of a conversion call reads
PageUnits(fn) == IF fn = "convertValue" THEN TableUnits ELSE CompareUnits

\* C22: for every class, every unit of the class and every non-null SI value
\* the materials table and the compare page produce the same display value:
\* what convertValue shows is what formatConvertedValueForDisplay shows, and
\* is the number calculateConvertedValue returns, shown with the decimals of
\* the unit.
C22_TableAndComparePageAgree ==
    (conversion.fn # "none" /\ conversion.value # Null
        /\ Registered(conversion.unitType, conversion.unit))
    => \A onTable \in {convertValue(conversion.value, conversion.unitType,
                                    selectedUnits)},
          onCompare \in {formatConvertedValueForDisplay(
                             conversion.value, conversion.unitType, selectedUnits)} :
           /\ conversion.out.threw = "none"
           /\ onTable = onCompare
           /\ conversion.fn = "calculateConvertedValue" =>
                  onTable.value =
                      ToLocaleString(conversion.out.value,
                          TableUnits[conversion.unitType][conversion.unit].precision)

GivenRows(i) == {Named(m, i) : m \in ChartMaterials}

SelectableUnits ==
    {u \in [UnitTypes -> UnitNames] :
        \A c \in UnitTypes : u[c] \in DOMAIN CompareUnits[c]}

\* C26: the radar scores do not depend on the selected display units: the
\* scores the chart holds under the selected units are, for every material
\* and every axis (the derived specificStrength and specificModulus axes
\* included), the scores computed from the values converted under the initial
\* selection kg/m3, GPa, MPa; so the scores under any two selections agree.
C26_ScoresIndependentOfUnits ==
    (Rendered /\ page = "compare") =>
        /\ selectedUnits \in SelectableUnits
        /\ \A base \in {ComputeNormalizedData(
                           chartData(orderedMaterials, InitialUnits))} :
               \A p \in AxisIndexes, i \in MaterialIndexes :
                   Eq(base[p][radarMaterials[i].name], Score(p, i))

\* three materials with different specific strengths are charted under
\* lb/ft3, ksi and psi, and the middle one scores strictly between 0 and 100
C26_Witness ==
    /\ Rendered /\ page = "compare"
    /\ selectedUnits = [density |-> "lb/ft3", modulus |-> "ksi", strength |-> "psi"]
    /\ Len(radarMaterials) = 3
    /\ \E i \in MaterialIndexes :
          Less(Zero, Score(6, i)) /\ Less(Score(6, i), Hundred)
    /\ \E i \in MaterialIndexes :
          Less(Zero, Score(3, i)) /\ Less(Score(3, i), Hundred)

ChartedProperties ==
    {"density", "youngsModulus", "yieldStrength", "ultimateTensileStrength",
     "shearModulus", "thermalExpansionCoefficient"}

\* C27: the chart data of the compare page carries a number for a property
\* exactly when the stored value of the property is not null: for each of the
\* six charted properties the chart value is null if and only if the stored
\* value is null, and a stored 0 is charted as 0.
C27_ChartValueNullIffStoredNull ==
    page = "compare" =>
        \A data \in {chartData(orderedMaterials, selectedUnits)} :
            \A i \in DOMAIN orderedMaterials, key \in ChartedProperties :
                /\ data[i][key] = Null <=> orderedMaterials[i][key] = Null
                /\ (orderedMaterials[i][key] # Null
                        /\ IsZero(orderedMaterials[i][key]))
                       => (data[i][key] # Null /\ IsZero(data[i][key]))

\* the unit table of the mounted page
MountedUnits(p) == IF p = "table" THEN TableUnits ELSE CompareUnits

\* C28: on the materials table and on the compare page, from the initial
\* selection kg/m3, GPa, MPa and after every change made through a unit
\* selector, the selected unit of each class is a key of the unit table of
\* the class, so the lookup of the conversion functions finds an entry; and
\* a change of the unit of one class leaves the units of the other two
\* classes as they were.
C28_SelectedUnitsRegistered ==
    [][/\ \A p \in {page, page'}, u \in {selectedUnits, selectedUnits'} :
              \A c \in UnitTypes :
                  /\ c \in DOMAIN u
                  /\ u[c] \in DOMAIN MountedUnits(p)[c]
                  /\ Lookup(MountedUnits(p)[c], u[c]) # Undefined
       /\ page' = page =>
              Cardinality({c \in UnitTypes : selectedUnits'[c] # selectedUnits[c]})
                  <= 1]_vars

\* on the compare page all three selectors have been used
C28_Witness ==
    /\ page = "compare"
    /\ selectedUnits = [density |-> "g/cm3", modulus |-> "psi", strength |-> "ksi"]
    /\ calculateConvertedValue(Int2Num(1000), "density", selectedUnits) =
           Returned(Int2Num(1))

(***************************************************************************)
(* Claims: materials table                                                 *)
(***************************************************************************)
SetOf(seq) == {seq[k] : k \in DOMAIN seq}

\* the elements of seq that are in S, in the order of seq
Restricted(seq, S) == SelectSeq(seq, LAMBDA x : x \in S)

\* C29: after any sequence of handleSelectMaterial calls selectedIds holds at
\* most MAX_COMPARE_ITEMS (6) ids and none twice; toggling a selected id
\* removes it (the others stay, in their order), toggling an unselected id
\* adds it at the end only while fewer than 6 are selected, and otherwise
\* leaves the selection as it is.
C29_SelectionBoundedAndToggled ==
    /\ Len(selectedIds) <= 6
    /\ Cardinality(SetOf(selectedIds)) = Len(selectedIds)
    /\ \A id \in SelectableIds :
          \A next \in {ToggleSelected(selectedIds, id)} :
              IF id \in SetOf(selectedIds)
                  THEN /\ SetOf(next) = SetOf(selectedIds) \ {id}
                       /\ next = Restricted(selectedIds, SetOf(next))
              ELSE IF Len(selectedIds) < 6
                  THEN /\ Len(next) = Len(selectedIds) + 1
                       /\ next[Len(next)] = id
                       /\ SubSeq(next, 1, Len(selectedIds)) = selectedIds
              ELSE next = selectedIds

\* six ids are selected, ticked in an order that is not the order of the table
C29_Witness ==
    /\ Len(selectedIds) = 6
    /\ selectedIds[1] = 7 /\ selectedIds[6] = 2
    /\ 1 \notin SetOf(selectedIds)

\* C30: after any sequence of next-page, previous-page, sort, search,
\* category-filter and items-per-page actions of the table, currentPage is at
\* least 1 and, whenever a material matches the filters, at most
\* totalPages = ceil(matching materials / itemsPerPage); and every change of
\* the sort, the search term, the category or the page length sets
\* currentPage to 1.
C30_CurrentPageWithinPages ==
    [][/\ currentPage' >= 1
       /\ \A matching \in {Len(filtered(searchTerm', selectedCategory'))} :
              matching > 0 =>
                  /\ currentPage' * itemsPerPage' < matching + itemsPerPage'
                  /\ currentPage' <=
                         totalPages(searchTerm', selectedCategory', itemsPerPage')
       /\ (\/ sortColumn' # sortColumn \/ sortDirection' # sortDirection
           \/ searchTerm' # searchTerm \/ selectedCategory' # selectedCategory
           \/ itemsPerPage' # itemsPerPage)
              => currentPage' = 1]_vars

\* the last of the two pages of the steel rows, sorted by density downwards
C30_Witness ==
    /\ selectedCategory = "Steel" /\ itemsPerPage = 10 /\ searchTerm = <<>>
    /\ sortColumn = "density" /\ sortDirection = "desc"
    /\ totalPages(searchTerm, selectedCategory, itemsPerPage) = 2
    /\ currentPage = 2

====
